---------------------------- MODULE Spec2Model ----------------------------
(***************************************************************************)
(* The healing combinators of x-cleaners: asHealingTuple, asHealingArray   *)
(* (both versions) and asHealingObject (key-value and shape mode).         *)
(*                                                                         *)
(* A JavaScript value is modelled as a record [t, keys, vals]:             *)
(*   t = "scalar" : undefined, null, a number or a string, held in vals[1] *)
(*   t = "array"  : a list; keys are the index strings "0", "1", ...       *)
(*   t = "object" : a map; keys in enumeration order (integer-like names   *)
(*                  ascending, then the others as inserted), vals[i]       *)
(*                  under keys[i]                                          *)
(* Elements and property values are scalars, written as strings:           *)
(*   "undefined", "null", the numbers "0" and "1", the string "a".         *)
(* A cleaner either returns a value or throws; THROW stands for the        *)
(* exception, and Thrown for a call that let an exception escape.          *)
(* built is the fallback as passed to the factory, first the value the     *)
(* first invocation returned, and alias tells whether the container the    *)
(* caller holds is the fallback object itself.                             *)
(***************************************************************************)
EXTENDS Naturals, Sequences, FiniteSets

VARIABLES kind, cleaner, shape, fallback, raw, out, pc, built, first, alias

vars == <<kind, cleaner, shape, fallback, raw, out, pc, built, first, alias>>

---------------------------------------------------------------------------
(* Bounds of the explored inputs. *)

\* longest raw list
MaxLen == 3
\* longest fallback list (array fallback, tuple template)
MaxFbLen == 2
\* most entries of a raw map
MaxKeys == 2
\* most entries of a fallback map
MaxFbKeys == 2
\* most fields of a shape
MaxShape == 2

---------------------------------------------------------------------------
(* JavaScript values. *)

THROW == "<throw>"

RawValue == {"undefined", "null", "1", "a"}
FbValue == {"undefined", "null", "0"}
Keys == {"a", "b", "__proto__"}
ShapeKeys == {"a", "b"}

IndexKey(i) == <<"0", "1", "2", "3", "4", "5", "6", "7", "8", "9">>[i + 1]

Scalar(v) == [t |-> "scalar", keys |-> <<>>, vals |-> <<v>>]
MkArray(vs) == [t |-> "array", keys |-> [i \in 1..Len(vs) |-> IndexKey(i - 1)], vals |-> vs]
MkObject(ks, vs) == [t |-> "object", keys |-> ks, vals |-> vs]
EmptyArray == MkArray(<<>>)
EmptyObject == MkObject(<<>>, <<>>)
Thrown == [t |-> "throw", keys |-> <<>>, vals |-> <<>>]
NoResult == [t |-> "none", keys |-> <<>>, vals |-> <<>>]
Undefined == Scalar("undefined")

\* x == null
IsNullish(x) == x.t = "scalar" /\ x.vals[1] \in {"undefined", "null"}
\* Array.isArray(x)
IsArray(x) == x.t = "array"
\* typeof x === 'object' && x != null
IsObjectLike(x) == x.t \in {"array", "object"}
\* Object.keys(x)
ObjectKeys(x) == x.keys
KeySet(x) == {x.keys[i] : i \in 1..Len(x.keys)}
\* x[key], and x?.[key] for a nullish x
Get(x, key) ==
  IF x.t \in {"array", "object"} /\ key \in KeySet(x)
  THEN x.vals[CHOOSE i \in 1..Len(x.keys) : x.keys[i] = key]
  ELSE "undefined"
\* x[i] for an index i (from 0)
GetIndex(x, i) == Get(x, IndexKey(i))
\* x.length of a list, and x?.length ?? 0
Length(x) == IF x.t = "array" THEN Len(x.vals) ELSE 0
\* out.push(v): the argument is evaluated first, and its exception escapes
Push(o, v) ==
  IF o = Thrown \/ v = THROW THEN Thrown
  ELSE MkArray(Append(o.vals, v))
\* the integer-like property names, ascending
IndexKeys == <<"0", "1", "2", "3", "4", "5", "6", "7", "8", "9">>
IsIndexKey(k) == \E i \in 1..Len(IndexKeys) : IndexKeys[i] = k
\* the order in which an object enumerates its own property names: the
\* integer-like names ascending, then the others in insertion order
JsOrder(ks) ==
  SelectSeq(IndexKeys, LAMBDA k : \E i \in 1..Len(ks) : ks[i] = k)
    \o SelectSeq(ks, LAMBDA k : ~IsIndexKey(k))
\* out[key] = v
SetProp(o, key, v) ==
  IF o = Thrown \/ v = THROW THEN Thrown
  ELSE IF key \in KeySet(o)
  THEN [o EXCEPT !.vals[CHOOSE i \in 1..Len(o.keys) : o.keys[i] = key] = v]
  ELSE LET ks == JsOrder(Append(o.keys, key)) IN
    [o EXCEPT !.keys = ks,
              !.vals = [i \in 1..Len(ks) |-> IF ks[i] = key THEN v ELSE Get(o, ks[i])]]
\* [...x]
SpreadArray(x) == MkArray(x.vals)
\* mutant: the fallback's keys are enumerated before raw's
SpreadKeys_FallbackFirst(a, b) ==
  JsOrder(ObjectKeys(b) \o SelectSeq(ObjectKeys(a), LAMBDA k : k \notin KeySet(b)))

\* Object.keys({ ...a, ...b }): a's own keys, then b's new ones, enumerated
\* in property order
SpreadKeys(a, b) ==
  JsOrder(ObjectKeys(a) \o SelectSeq(ObjectKeys(b), LAMBDA k : k \notin KeySet(a)))

---------------------------------------------------------------------------
(* The cleaners handed to the combinators. *)

Cleaners == {"asNumber", "asString", "asOptionalNumber"}

\* cleaner(x): the cleaned value, or THROW
Apply(c, x) ==
  CASE c = "asNumber" -> IF x \in {"0", "1"} THEN x ELSE THROW
    [] c = "asString" -> IF x = "a" THEN x ELSE THROW
    [] c = "asOptionalNumber" ->
         IF x \in {"undefined", "null"} THEN "undefined"
         ELSE IF x \in {"0", "1"} THEN x ELSE THROW
    [] OTHER -> THROW

\* asMaybe(cleaner, fb)(x) of the cleaners package
asMaybe(c, fb, x) == IF Apply(c, x) = THROW THEN fb ELSE Apply(c, x)

---------------------------------------------------------------------------
(* asHealingTuple *)

\* mutant: the loop runs to raw.length instead of fallback.length
RECURSIVE TupleLoop_RawLength(_, _, _, _, _)
TupleLoop_RawLength(c, fb, r, i, o) ==
  IF o = Thrown \/ ~(i < Len(r.vals)) THEN o
  ELSE TupleLoop_RawLength(c, fb, r, i + 1,
                           Push(o, asMaybe(c, GetIndex(fb, i), GetIndex(r, i))))

\* mutant: every slot heals to fallback[0] instead of fallback[i]
RECURSIVE TupleLoop_FirstFallback(_, _, _, _, _)
TupleLoop_FirstFallback(c, fb, r, i, o) ==
  IF o = Thrown \/ ~(i < Len(fb.vals)) THEN o
  ELSE TupleLoop_FirstFallback(c, fb, r, i + 1,
                               Push(o, asMaybe(c, GetIndex(fb, 0), GetIndex(r, i))))

\* mutant: the cleaner is called without the asMaybe guard
RECURSIVE TupleLoop_Unguarded(_, _, _, _, _)
TupleLoop_Unguarded(c, fb, r, i, o) ==
  IF o = Thrown \/ ~(i < Len(fb.vals)) THEN o
  ELSE TupleLoop_Unguarded(c, fb, r, i + 1, Push(o, Apply(c, GetIndex(r, i))))

\* mutant: slot i is healed from raw[i + 1]
RECURSIVE TupleLoop_OffByOne(_, _, _, _, _)
TupleLoop_OffByOne(c, fb, r, i, o) ==
  IF o = Thrown \/ ~(i < Len(fb.vals)) THEN o
  ELSE TupleLoop_OffByOne(c, fb, r, i + 1,
                          Push(o, asMaybe(c, GetIndex(fb, i), GetIndex(r, i + 1))))

RECURSIVE TupleLoop(_, _, _, _, _)
TupleLoop(c, fb, r, i, o) ==
  IF o = Thrown \/ ~(i < Len(fb.vals)) THEN o
  ELSE TupleLoop(c, fb, r, i + 1, Push(o, asMaybe(c, GetIndex(fb, i), GetIndex(r, i))))

\* mutant: no Array.isArray guard, the loop runs on any raw
asMaybeTuple_AlwaysLoop(c, fb, r) == TupleLoop(c, fb, r, 0, EmptyArray)

asMaybeTuple(c, fb, r) ==
  IF ~IsArray(r) THEN SpreadArray(fb)
  ELSE TupleLoop(c, fb, r, 0, EmptyArray)

---------------------------------------------------------------------------
(* asHealingArray, with an optional fallback list *)

\* mutant: a slot without fallback goes through asMaybe too, so a rejected
\* element is kept as undefined instead of being dropped
RECURSIVE ArrayLoop_KeepInvalid(_, _, _, _, _, _)
ArrayLoop_KeepInvalid(c, fb, r, length, i, o) ==
  IF o = Thrown \/ ~(i < length) THEN o
  ELSE ArrayLoop_KeepInvalid(c, fb, r, length, i + 1,
                             Push(o, asMaybe(c, GetIndex(fb, i), GetIndex(r, i))))

RECURSIVE ArrayLoop(_, _, _, _, _, _)
ArrayLoop(c, fb, r, length, i, o) ==
  IF o = Thrown \/ ~(i < length) THEN o
  ELSE IF GetIndex(fb, i) \in {"undefined", "null"}
  THEN ArrayLoop(c, fb, r, length, i + 1,
                 IF Apply(c, GetIndex(r, i)) = THROW THEN o
                 ELSE Push(o, Apply(c, GetIndex(r, i))))
  ELSE ArrayLoop(c, fb, r, length, i + 1,
                 Push(o, asMaybe(c, GetIndex(fb, i), GetIndex(r, i))))

Max(a, b) == IF a > b THEN a ELSE b

\* mutant: the loop runs to raw.length only, so the fallback never pads
asMaybeArray_RawLength(c, fb, r) ==
  IF ~IsArray(r) THEN EmptyArray
  ELSE ArrayLoop(c, fb, r, Length(r), 0, EmptyArray)

\* mutant: a non-list raw resolves to the fallback list, as the tuple does
asMaybeArray_FallbackOnNonList(c, fb, r) ==
  IF ~IsArray(r) THEN (IF IsArray(fb) THEN SpreadArray(fb) ELSE EmptyArray)
  ELSE ArrayLoop(c, fb, r, Max(Length(r), Length(fb)), 0, EmptyArray)

asMaybeArray(c, fb, r) ==
  IF ~IsArray(r) THEN EmptyArray
  ELSE ArrayLoop(c, fb, r, Max(Length(r), Length(fb)), 0, EmptyArray)

(* asHealingArray, the one-argument version *)

RECURSIVE FilterLoop(_, _, _, _)
FilterLoop(c, r, n, o) ==
  IF o = Thrown \/ n > Len(r.vals) THEN o
  ELSE FilterLoop(c, r, n + 1,
                  IF Apply(c, r.vals[n]) = THROW THEN o
                  ELSE Push(o, Apply(c, r.vals[n])))

asHealingArrayCleaner(c, r) ==
  IF ~IsArray(r) THEN EmptyArray
  ELSE FilterLoop(c, r, 1, EmptyArray)

---------------------------------------------------------------------------
(* asHealingObject, key-value mode: shape is a cleaner function *)

\* mutant: the '__proto__' key is not skipped
RECURSIVE ObjectLoop_NoProtoSkip(_, _, _, _, _, _)
ObjectLoop_NoProtoSkip(c, fb, r, keys, i, o) ==
  IF o = Thrown \/ ~(i < Len(keys)) THEN o
  ELSE LET key == keys[i + 1] IN
    IF Get(fb, key) \in {"undefined", "null"}
    THEN ObjectLoop_NoProtoSkip(c, fb, r, keys, i + 1,
                                IF Apply(c, Get(r, key)) = THROW THEN o
                                ELSE SetProp(o, key, Apply(c, Get(r, key))))
    ELSE ObjectLoop_NoProtoSkip(c, fb, r, keys, i + 1,
                                SetProp(o, key, asMaybe(c, Get(fb, key), Get(r, key))))

\* mutant: a key without fallback goes through asMaybe too, so a rejected
\* value is kept as undefined instead of being dropped
RECURSIVE ObjectLoop_KeepInvalid(_, _, _, _, _, _)
ObjectLoop_KeepInvalid(c, fb, r, keys, i, o) ==
  IF o = Thrown \/ ~(i < Len(keys)) THEN o
  ELSE LET key == keys[i + 1] IN
    IF key = "__proto__" THEN ObjectLoop_KeepInvalid(c, fb, r, keys, i + 1, o)
    ELSE ObjectLoop_KeepInvalid(c, fb, r, keys, i + 1,
                                SetProp(o, key, asMaybe(c, Get(fb, key), Get(r, key))))

RECURSIVE ObjectLoop(_, _, _, _, _, _)
ObjectLoop(c, fb, r, keys, i, o) ==
  IF o = Thrown \/ ~(i < Len(keys)) THEN o
  ELSE LET key == keys[i + 1] IN
    IF key = "__proto__" THEN ObjectLoop(c, fb, r, keys, i + 1, o)
    ELSE IF Get(fb, key) \in {"undefined", "null"}
    THEN ObjectLoop(c, fb, r, keys, i + 1,
                    IF Apply(c, Get(r, key)) = THROW THEN o
                    ELSE SetProp(o, key, Apply(c, Get(r, key))))
    ELSE ObjectLoop(c, fb, r, keys, i + 1,
                    SetProp(o, key, asMaybe(c, Get(fb, key), Get(r, key))))

\* mutant: only raw's keys are visited, whatever the fallback holds
asMaybeObject_RawKeys(c, fb, r) ==
  IF ~IsObjectLike(r) THEN EmptyObject
  ELSE ObjectLoop(c, fb, r, ObjectKeys(r), 0, EmptyObject)

\* mutant: a non-object raw resolves to a copy of the fallback map
asMaybeObject_FallbackOnScalar(c, fb, r) ==
  IF ~IsObjectLike(r) THEN (IF IsNullish(fb) THEN EmptyObject ELSE MkObject(fb.keys, fb.vals))
  ELSE ObjectLoop(c, fb, r,
                  IF IsNullish(fb) THEN ObjectKeys(r) ELSE SpreadKeys(r, fb),
                  0, EmptyObject)

asMaybeObject(c, fb, r) ==
  IF ~IsObjectLike(r) THEN EmptyObject
  ELSE ObjectLoop(c, fb, r,
                  IF IsNullish(fb) THEN ObjectKeys(r) ELSE SpreadKeys(r, fb),
                  0, EmptyObject)

(* asHealingObject, shape mode: shape maps each field to its cleaner *)

\* safeShape[key](x) = asMaybe(shape[key], fallback[key])(x)
safeShape(sh, fb, key, x) == asMaybe(Get(sh, key), Get(fb, key), x)

\* asObject(safeShape)(r) of the cleaners package: throws unless r is an
\* object; otherwise cleans each declared field and ignores the others
RECURSIVE asObjectLoop(_, _, _, _, _)
asObjectLoop(sh, fb, r, i, o) ==
  IF o = Thrown \/ ~(i < Len(sh.keys)) THEN o
  ELSE asObjectLoop(sh, fb, r, i + 1,
         SetProp(o, sh.keys[i + 1], safeShape(sh, fb, sh.keys[i + 1], Get(r, sh.keys[i + 1]))))

asObject(sh, fb, r) ==
  IF ~IsObjectLike(r) THEN Thrown
  ELSE asObjectLoop(sh, fb, r, 0, EmptyObject)

\* mutant: asMaybe(asObject(shape), fallback), the fields left unguarded, so
\* one rejected field makes the whole record fall back
asHealingObjectShape_Unsafe(sh, fb, r) ==
  IF ~IsObjectLike(r) \/ \E k \in KeySet(sh) : Apply(Get(sh, k), Get(r, k)) = THROW
  THEN fb
  ELSE asObject(sh, fb, r)

\* mutant: a non-object raw resolves to an empty record, as in key-value mode
asHealingObjectShape_EmptyOnNonObject(sh, fb, r) ==
  IF ~IsObjectLike(r) THEN EmptyObject ELSE asObject(sh, fb, r)

\* asMaybe(asObject(safeShape), fallback)(r)
asHealingObjectShape(sh, fb, r) ==
  IF asObject(sh, fb, r) = Thrown THEN fb ELSE asObject(sh, fb, r)

---------------------------------------------------------------------------
(* Inputs. *)

SeqsUpTo(S, n) == UNION {[1..k -> S] : k \in 0..n}
Arrays(S, n) == {MkArray(vs) : vs \in SeqsUpTo(S, n)}
KeySeqs(K, n) == {ks \in SeqsUpTo(K, n) : \A i, j \in 1..Len(ks) : i # j => ks[i] # ks[j]}
Objects(K, S, n) ==
  UNION {{MkObject(ks, vs) : vs \in [1..Len(ks) -> S]} : ks \in KeySeqs(K, n)}
Scalars == {Scalar(v) : v \in RawValue}

RawLists == Arrays(RawValue, MaxLen)
RawMaps == Objects(Keys, RawValue, MaxKeys)
\* what a list combinator is called with: lists, scalars and a few maps
ListInputs == RawLists \cup Scalars \cup Objects(Keys, RawValue, 1)
\* what an object combinator is called with: maps, scalars and a few lists
MapInputs == RawMaps \cup Scalars \cup Arrays(RawValue, 2)

FbLists == Arrays(FbValue, MaxFbLen)
FbMaps == Objects(Keys, FbValue, MaxFbKeys)
\* a shape and the fallback record that goes with it: the same fields, each
\* with a cleaner and a default
Shapes == Objects(ShapeKeys, Cleaners, MaxShape)
ShapeFallbacks(sh) == {MkObject(sh.keys, vs) : vs \in [1..Len(sh.keys) -> {"null", "0", "a"}]}

\* the cleaner built as kind k from (c, sh, fb), applied to r
Heal(k, c, sh, fb, r) ==
  CASE k = "asHealingTuple" -> asMaybeTuple(c, fb, r)
    [] k = "asHealingArray" -> asMaybeArray(c, fb, r)
    [] k = "asHealingArrayCleaner" -> asHealingArrayCleaner(c, r)
    [] k = "asMaybeObject" -> asMaybeObject(c, fb, r)
    [] k = "asHealingObjectShape" -> asHealingObjectShape(sh, fb, r)

\* whether the container an invocation returns is the fallback object itself:
\* only asMaybe(asObject(safeShape), fallback) hands its fallback back; the
\* other paths return [...fallback], [] , {} or the out they filled
ReturnsFallback(k, sh, fb, r) ==
  k = "asHealingObjectShape" /\ asObject(sh, fb, r) = Thrown

---------------------------------------------------------------------------
(* The state machine: a combinator is built, then invoked on a raw input.  *)

Init ==
  /\ pc = "built"
  /\ raw = Undefined
  /\ out = NoResult
  /\ first = NoResult
  /\ alias = FALSE
  /\ \/ /\ kind = "asHealingTuple"
        /\ cleaner \in Cleaners
        /\ shape = EmptyObject
        /\ fallback \in FbLists
     \/ /\ kind = "asHealingArray"
        /\ cleaner \in Cleaners
        /\ shape = EmptyObject
        /\ fallback \in FbLists \cup {Undefined}
     \/ /\ kind = "asHealingArrayCleaner"
        /\ cleaner \in Cleaners
        /\ shape = EmptyObject
        /\ fallback = Undefined
     \/ /\ kind = "asMaybeObject"
        /\ cleaner \in Cleaners
        /\ shape = EmptyObject
        /\ fallback \in FbMaps \cup {Undefined}
     \/ /\ kind = "asHealingObjectShape"
        /\ cleaner = "none"
        /\ shape \in Shapes
        /\ fallback \in ShapeFallbacks(shape)
  /\ built = fallback

CallHealingTuple ==
  /\ pc = "built" /\ kind = "asHealingTuple"
  /\ \E r \in ListInputs :
       /\ raw' = r
       /\ out' = asMaybeTuple(cleaner, fallback, r)
       /\ first' = asMaybeTuple(cleaner, fallback, r)
       /\ alias' = ReturnsFallback(kind, shape, fallback, r)
  /\ pc' = "done"
  /\ UNCHANGED <<kind, cleaner, shape, fallback, built>>

CallHealingArray ==
  /\ pc = "built" /\ kind = "asHealingArray"
  /\ \E r \in ListInputs :
       /\ raw' = r
       /\ out' = asMaybeArray(cleaner, fallback, r)
       /\ first' = asMaybeArray(cleaner, fallback, r)
       /\ alias' = ReturnsFallback(kind, shape, fallback, r)
  /\ pc' = "done"
  /\ UNCHANGED <<kind, cleaner, shape, fallback, built>>

CallHealingArrayCleaner ==
  /\ pc = "built" /\ kind = "asHealingArrayCleaner"
  /\ \E r \in ListInputs :
       /\ raw' = r
       /\ out' = asHealingArrayCleaner(cleaner, r)
       /\ first' = asHealingArrayCleaner(cleaner, r)
       /\ alias' = ReturnsFallback(kind, shape, fallback, r)
  /\ pc' = "done"
  /\ UNCHANGED <<kind, cleaner, shape, fallback, built>>

CallHealingObject ==
  /\ pc = "built" /\ kind = "asMaybeObject"
  /\ \E r \in MapInputs :
       /\ raw' = r
       /\ out' = asMaybeObject(cleaner, fallback, r)
       /\ first' = asMaybeObject(cleaner, fallback, r)
       /\ alias' = ReturnsFallback(kind, shape, fallback, r)
  /\ pc' = "done"
  /\ UNCHANGED <<kind, cleaner, shape, fallback, built>>

CallHealingObjectShape ==
  /\ pc = "built" /\ kind = "asHealingObjectShape"
  /\ \E r \in MapInputs :
       /\ raw' = r
       /\ out' = asHealingObjectShape(shape, fallback, r)
       /\ first' = asHealingObjectShape(shape, fallback, r)
       /\ alias' = ReturnsFallback(kind, shape, fallback, r)
  /\ pc' = "done"
  /\ UNCHANGED <<kind, cleaner, shape, fallback, built>>

Next ==
  \/ CallHealingTuple
  \/ CallHealingArray
  \/ CallHealingArrayCleaner
  \/ CallHealingObject
  \/ CallHealingObjectShape

Spec == Init /\ [][Next]_vars

(* The caller keeps the returned container, writes to it, and invokes the   *)
(* same combinator again on the same raw input.                             *)

\* what one write by the caller makes of a container it holds
Mutations(o) ==
  IF IsArray(o)
  THEN {MkArray([o.vals EXCEPT ![i] = "x"]) : i \in 1..Len(o.vals)} \cup {Push(o, "x")}
  ELSE {SetProp(o, k, "x") : k \in KeySet(o)} \cup {SetProp(o, "z", "x")}

\* result.key = 'x' / result.push('x'): a write to the fallback object
\* itself when that is what the invocation returned
Mutate ==
  /\ pc = "done"
  /\ IsObjectLike(out)
  /\ \E o \in Mutations(out) :
       /\ out' = o
       /\ fallback' = IF alias THEN o ELSE fallback
  /\ pc' = "mutated"
  /\ UNCHANGED <<kind, cleaner, shape, raw, built, first, alias>>

Reinvoke ==
  /\ pc = "mutated"
  /\ out' = Heal(kind, cleaner, shape, fallback, raw)
  /\ alias' = ReturnsFallback(kind, shape, fallback, raw)
  /\ pc' = "again"
  /\ UNCHANGED <<kind, cleaner, shape, fallback, raw, built, first>>

NextAlias ==
  \/ Next
  \/ Mutate
  \/ Reinvoke

SpecAlias == Init /\ [][NextAlias]_vars

(* Key-value asHealingObject with fallback maps that also hold an          *)
(* integer-like key.                                                        *)

OrderKeys == {"a", "b", "0"}
OrderFbMaps == {o \in Objects(OrderKeys, FbValue, MaxFbKeys) : o.keys = JsOrder(o.keys)}

InitOrder ==
  /\ pc = "built"
  /\ raw = Undefined
  /\ out = NoResult
  /\ first = NoResult
  /\ alias = FALSE
  /\ kind = "asMaybeObject"
  /\ cleaner \in Cleaners
  /\ shape = EmptyObject
  /\ fallback \in OrderFbMaps
  /\ built = fallback

NextOrder == CallHealingObject

SpecOrder == InitOrder /\ [][NextOrder]_vars

---------------------------------------------------------------------------
(* Properties. *)

Done(k) == pc = "done" /\ kind = k
Accepts(c, x) == Apply(c, x) # THROW
Usable(v) == v \notin {"undefined", "null"}
\* the indices 0 .. n-1
Indices(n) == {i \in 0..n : i < n}

\* C1: asHealingTuple returns a list of exactly len(template) elements for
\* every raw input: empty, shorter or longer list, and any non-list value.
C1_TupleLength ==
  Done("asHealingTuple") =>
    out.t = "array" /\ Len(out.vals) = Len(fallback.vals)

C1_Witness ==
  /\ Done("asHealingTuple")
  /\ IsArray(raw)
  /\ Len(fallback.vals) >= 1
  /\ Len(raw.vals) > Len(fallback.vals)
  /\ \E i \in 1..Len(raw.vals) : ~Accepts(cleaner, raw.vals[i])
  /\ Len(out.vals) = Len(fallback.vals)

\* C2: on a list raw, slot i of the tuple is cleaner(raw[i]) when the
\* cleaner accepts raw[i] (undefined when i >= len(raw)) and template[i]
\* otherwise; raw elements from index len(template) on are never read.
C2_TupleByPosition ==
  (Done("asHealingTuple") /\ IsArray(raw)) =>
    /\ out.t = "array"
    /\ Len(out.vals) = Len(fallback.vals)
    /\ \A i \in Indices(Len(fallback.vals)) :
         out.vals[i + 1] =
           IF Accepts(cleaner, GetIndex(raw, i))
           THEN Apply(cleaner, GetIndex(raw, i))
           ELSE fallback.vals[i + 1]

C2_Witness ==
  /\ Done("asHealingTuple")
  /\ IsArray(raw)
  /\ Len(fallback.vals) = 2
  /\ Len(raw.vals) = 3
  /\ ~Accepts(cleaner, raw.vals[1])
  /\ Accepts(cleaner, raw.vals[2])
  /\ fallback.vals[1] # fallback.vals[2]
  /\ out.vals = <<fallback.vals[1], Apply(cleaner, raw.vals[2])>>

\* C3: asHealingArray without fallback, on a list raw, returns the cleaned
\* values of the accepted elements in index order: as many as were accepted,
\* never more than len(raw).  Both versions of asHealingArray.
C3_ArrayFilters ==
(((Done("asHealingArray") /\ IsNullish(fallback)) \/ Done("asHealingArrayCleaner"))
     /\ IsArray(raw)) =>
    /\ out = MkArray(SelectSeq([i \in 1..Len(raw.vals) |-> Apply(cleaner, raw.vals[i])],
                               LAMBDA v : v # THROW))
    /\ Len(out.vals) = Cardinality({i \in 1..Len(raw.vals) : Accepts(cleaner, raw.vals[i])})
    /\ Len(out.vals) <= Len(raw.vals)

C3_Witness ==
  /\ Done("asHealingArray")
  /\ IsNullish(fallback)
  /\ IsArray(raw)
  /\ Len(raw.vals) = 3
  /\ Accepts(cleaner, raw.vals[1])
  /\ ~Accepts(cleaner, raw.vals[2])
  /\ Accepts(cleaner, raw.vals[3])
  /\ raw.vals[1] # raw.vals[3]
  /\ out.vals = <<Apply(cleaner, raw.vals[1]), Apply(cleaner, raw.vals[3])>>

\* what index i contributes to the healed array
Contribution(c, fb, r, i) ==
  IF Usable(GetIndex(fb, i))
  THEN <<IF Accepts(c, GetIndex(r, i)) THEN Apply(c, GetIndex(r, i)) ELSE GetIndex(fb, i)>>
  ELSE IF Accepts(c, GetIndex(r, i)) THEN <<Apply(c, GetIndex(r, i))>> ELSE <<>>

RECURSIVE Contributions(_, _, _, _)
Contributions(c, fb, r, n) ==
  IF n = 0 THEN <<>>
  ELSE Contributions(c, fb, r, n - 1) \o Contribution(c, fb, r, n - 1)

\* C4: asHealingArray with a fallback list, on a list raw, returns the
\* concatenation over i < max(len(raw), len(fallback)) of one contribution
\* per index: with a usable fallback[i] exactly one value (the cleaned raw[i],
\* else fallback[i]); without, the cleaned raw[i] or nothing.
C4_ArrayWithFallback ==
  (Done("asHealingArray") /\ IsArray(fallback) /\ IsArray(raw)) =>
    /\ out = MkArray(Contributions(cleaner, fallback, raw,
                                   Max(Len(raw.vals), Len(fallback.vals))))
    /\ Len(out.vals) >= Cardinality({i \in 1..Len(fallback.vals) : Usable(fallback.vals[i])})

C4_Witness ==
  /\ Done("asHealingArray")
  /\ IsArray(fallback)
  /\ IsArray(raw)
  /\ Len(raw.vals) = 1
  /\ Len(fallback.vals) = 2
  /\ ~Usable(fallback.vals[1])
  /\ ~Accepts(cleaner, raw.vals[1])
  /\ Usable(fallback.vals[2])
  /\ out.vals = <<fallback.vals[2]>>

\* C5: key-value asHealingObject with a fallback map, on a map raw: only
\* keys of raw or fallback are emitted, and every key but '__proto__' with
\* a usable fallback entry is present, holding the cleaned raw[key] when
\* accepted and fallback[key] otherwise, also when raw lacks the key.
C5_FallbackKeysPresent ==
  (Done("asMaybeObject") /\ raw.t = "object" /\ fallback.t = "object") =>
    /\ KeySet(out) \subseteq KeySet(raw) \cup KeySet(fallback)
    /\ \A k \in KeySet(fallback) \ {"__proto__"} :
         Usable(Get(fallback, k)) =>
           /\ k \in KeySet(out)
           /\ Get(out, k) = IF Accepts(cleaner, Get(raw, k))
                            THEN Apply(cleaner, Get(raw, k))
                            ELSE Get(fallback, k)

C5_Witness ==
  /\ Done("asMaybeObject")
  /\ raw.t = "object"
  /\ fallback.t = "object"
  /\ \E k \in KeySet(fallback) \ KeySet(raw) :
       /\ k # "__proto__"
       /\ Usable(Get(fallback, k))
       /\ ~Accepts(cleaner, "undefined")
       /\ k \in KeySet(out)
       /\ Get(out, k) = Get(fallback, k)
  /\ \E k \in KeySet(raw) : Accepts(cleaner, Get(raw, k)) /\ k \in KeySet(out)

\* The statement of C6 as written: for every key without a usable fallback
\* entry, the key is in the output, holding cleaner(raw[key]), iff the
\* cleaner accepts raw[key]; without fallback map the output keys are raw's.
C6_AsWritten ==
  (Done("asMaybeObject") /\ raw.t = "object") =>
    /\ \A k \in KeySet(raw) \cup KeySet(fallback) :
         ~Usable(Get(fallback, k)) =>
           /\ k \in KeySet(out) <=> Accepts(cleaner, Get(raw, k))
           /\ k \in KeySet(out) => Get(out, k) = Apply(cleaner, Get(raw, k))
    /\ IsNullish(fallback) => KeySet(out) \subseteq KeySet(raw)

\* C6 (amended): key-value asHealingObject on a map raw: for every key
\* other than '__proto__' without a usable fallback entry, the key is in the
\* output, holding cleaner(raw[key]), iff the cleaner accepts raw[key];
\* without a fallback map the output keys are among raw's keys.
C6_DropsUnlessAccepted ==
  (Done("asMaybeObject") /\ raw.t = "object") =>
    /\ \A k \in (KeySet(raw) \cup KeySet(fallback)) \ {"__proto__"} :
         ~Usable(Get(fallback, k)) =>
           /\ k \in KeySet(out) <=> Accepts(cleaner, Get(raw, k))
           /\ k \in KeySet(out) => Get(out, k) = Apply(cleaner, Get(raw, k))
    /\ IsNullish(fallback) => KeySet(out) \subseteq KeySet(raw)

C6_Witness ==
  /\ Done("asMaybeObject")
  /\ raw.t = "object"
  /\ IsNullish(fallback)
  /\ \E k1, k2 \in KeySet(raw) \ {"__proto__"} :
       /\ Accepts(cleaner, Get(raw, k1))
       /\ ~Accepts(cleaner, Get(raw, k2))
       /\ KeySet(out) = {k1}
       /\ Get(out, k1) = Apply(cleaner, Get(raw, k1))

\* C7: shape-mode asHealingObject on a map raw, the fallback record having
\* the shape's fields: the output has exactly the shape's fields (in the
\* shape's order), field f holding shape[f](raw[f]) when accepted and
\* fallback[f] otherwise, also when raw lacks f; undeclared raw keys are
\* not emitted.
C7_ShapeFields ==
  (Done("asHealingObjectShape") /\ raw.t = "object" /\ KeySet(fallback) = KeySet(shape)) =>
    /\ out.t = "object"
    /\ out.keys = shape.keys
    /\ \A f \in KeySet(shape) :
         Get(out, f) = IF Accepts(Get(shape, f), Get(raw, f))
                       THEN Apply(Get(shape, f), Get(raw, f))
                       ELSE Get(fallback, f)
    /\ \A k \in KeySet(raw) \ KeySet(shape) : k \notin KeySet(out)

C7_Witness ==
  /\ Done("asHealingObjectShape")
  /\ raw.t = "object"
  /\ Len(shape.keys) = 2
  /\ KeySet(raw) \ KeySet(shape) # {}
  /\ \E f, g \in KeySet(shape) :
       /\ f \in KeySet(raw)
       /\ Accepts(Get(shape, f), Get(raw, f))
       /\ Get(out, f) = Get(raw, f)
       /\ Get(fallback, f) # Get(raw, f)
       /\ g \notin KeySet(raw)
       /\ Get(out, g) = Get(fallback, g)

\* x without its own '__proto__' key
WithoutProto(x) ==
  IF x.t # "object" THEN x
  ELSE LET keep == {i \in 1..Len(x.keys) : x.keys[i] # "__proto__"}
           pick == SelectSeq([i \in 1..Len(x.keys) |-> i], LAMBDA i : i \in keep)
       IN MkObject([j \in 1..Len(pick) |-> x.keys[pick[j]]],
                   [j \in 1..Len(pick) |-> x.vals[pick[j]]])

\* C8: key-value asHealingObject never emits a '__proto__' key, whatever raw
\* and the fallback map hold under that key, and the other keys come out
\* as they do when neither raw nor fallback has a '__proto__' key.
C8_NoProtoKey ==
  Done("asMaybeObject") =>
    /\ "__proto__" \notin KeySet(out)
    /\ out = asMaybeObject(cleaner, WithoutProto(fallback), WithoutProto(raw))

C8_Witness ==
  /\ Done("asMaybeObject")
  /\ raw.t = "object"
  /\ "__proto__" \in KeySet(raw)
  /\ Accepts(cleaner, Get(raw, "__proto__"))
  /\ Usable(Get(fallback, "__proto__"))
  /\ KeySet(out) # {}
  /\ "__proto__" \notin KeySet(out)

\* C9: every invocation returns a container: no rejection of an element or
\* field by the cleaner escapes the combinator, for any raw input.
C9_Total ==
  pc = "done" => out # Thrown /\ out.t \in {"array", "object"}

C9_Witness ==
  /\ Done("asHealingTuple")
  /\ IsArray(raw)
  /\ Len(raw.vals) >= 2
  /\ Len(fallback.vals) = 2
  /\ \A i \in 1..Len(raw.vals) : ~Accepts(cleaner, raw.vals[i])
  /\ out = fallback

\* C10: key-value asHealingObject given a list (the wrong container kind)
\* returns an empty map, as it does for null, undefined and scalars.
C10_ListGivesEmptyMap ==
  (Done("asMaybeObject") /\ IsArray(raw)) => out = EmptyObject

\* C11: key-value asHealingObject given null, undefined or a scalar returns
\* an empty map, with or without a fallback map: no fallback entry is emitted.
C11_ScalarGivesEmptyMap ==
  (Done("asMaybeObject") /\ raw.t = "scalar") => out = EmptyObject

C11_Witness ==
  /\ Done("asMaybeObject")
  /\ raw = Scalar("1")
  /\ \E k \in KeySet(fallback) \ {"__proto__"} : Usable(Get(fallback, k))
  /\ out = EmptyObject

\* C12: asHealingArray given a non-list raw (null, undefined, scalar, map)
\* returns the empty list, without fallback and with a fallback list.
C12_NonListGivesEmptyList ==
  ((Done("asHealingArray") \/ Done("asHealingArrayCleaner")) /\ ~IsArray(raw)) =>
    out = EmptyArray

C12_Witness ==
  /\ Done("asHealingArray")
  /\ IsArray(fallback)
  /\ \E i \in 1..Len(fallback.vals) : Usable(fallback.vals[i])
  /\ raw.t = "object"
  /\ Len(raw.keys) = 1
  /\ out = EmptyArray

\* C13: asHealingTuple given a non-list raw returns a list equal to the
\* template element by element; the cleaner is applied to nothing.
C13_NonListGivesTemplate ==
  (Done("asHealingTuple") /\ ~IsArray(raw)) =>
    out.t = "array" /\ out.vals = fallback.vals

C13_Witness ==
  /\ Done("asHealingTuple")
  /\ raw = Scalar("null")
  /\ Len(fallback.vals) = 2
  /\ Accepts(cleaner, "undefined")
  /\ Usable(fallback.vals[1])
  /\ out.vals = fallback.vals

\* C14: shape-mode asHealingObject given null, undefined or a scalar
\* returns the fallback record: every fallback field, and nothing else.
C14_ScalarGivesFallbackRecord ==
  (Done("asHealingObjectShape") /\ raw.t = "scalar") => out = fallback

C14_Witness ==
  /\ Done("asHealingObjectShape")
  /\ raw = Scalar("a")
  /\ Len(shape.keys) = 2
  /\ out.keys = fallback.keys
  /\ out.vals = fallback.vals

\* the cleaner returns every value it accepts unchanged
Faithful(c) ==
  \A x \in RawValue \cup FbValue \cup {"a"} : Accepts(c, x) => Apply(c, x) = x
FaithfulConfig ==
  IF kind = "asHealingObjectShape"
  THEN \A f \in KeySet(shape) : Faithful(Get(shape, f))
  ELSE Faithful(cleaner)

UsablePrefix(fb) ==
  \A i, j \in 1..Len(fb.vals) : (i < j /\ Usable(fb.vals[j])) => Usable(fb.vals[i])

\* the cases in which the healed output is healed to itself
IdempotentCase ==
  \/ kind \in {"asHealingTuple", "asHealingArrayCleaner", "asHealingObjectShape"}
  \/ kind \in {"asHealingArray", "asMaybeObject"} /\ IsNullish(fallback)
  \/ kind = "asHealingArray" /\ IsArray(raw) /\ UsablePrefix(fallback)
  \/ kind = "asMaybeObject" /\ raw.t = "object"

C16_FreshContainer ==
  /\ fallback = built
  /\ pc = "again" => out = first

\* the keys of raw, then the keys that occur only in fallback
RawThenFallbackOnly(r, fb) ==
  ObjectKeys(r) \o SelectSeq(ObjectKeys(fb), LAMBDA k : k \notin KeySet(r))

\* C17 as stated: for every raw map and fallback map the output keys are
\* raw's own keys in raw's order, then the fallback-only keys in fallback's
\* order, the dropped keys omitted.
C17_AsWritten ==
  (Done("asMaybeObject") /\ IsObjectLike(raw) /\ ~IsNullish(fallback)) =>
    ObjectKeys(out) = SelectSeq(RawThenFallbackOnly(raw, fallback), LAMBDA k : k \in KeySet(out))

\* C17: when no fallback-only key is an integer-like index name, key-value
\* asHealingObject with a fallback map emits raw's own keys first, in raw's
\* order, then the fallback-only keys in fallback's order, the dropped keys
\* omitted; a key of both keeps raw's position.
C17_KeyOrder ==
  (/\ Done("asMaybeObject") /\ IsObjectLike(raw) /\ ~IsNullish(fallback)
   /\ \A k \in KeySet(fallback) \ KeySet(raw) : ~IsIndexKey(k)) =>
    ObjectKeys(out) = SelectSeq(RawThenFallbackOnly(raw, fallback), LAMBDA k : k \in KeySet(out))

C17_Witness ==
  /\ Done("asMaybeObject")
  /\ raw.t = "object"
  /\ raw.keys = <<"b">>
  /\ Accepts(cleaner, raw.vals[1])
  /\ fallback.t = "object"
  /\ fallback.keys = <<"a", "b">>
  /\ Usable(fallback.vals[1])
  /\ \A k \in KeySet(fallback) \ KeySet(raw) : ~IsIndexKey(k)
  /\ out.keys = <<"b", "a">>

AllUsable(fb) == \A i \in 1..Len(fb.vals) : Usable(fb.vals[i])

\* C18: with a fallback list fb whose entries are all usable, asHealingArray
\* and asHealingTuple built from the same cleaner and fb agree on a list raw:
\* the first len(fb) elements of the array result are the tuple result, and
\* the two results are equal when len(raw) <= len(fb).
C18_ArrayExtendsTuple ==
  /\ (Done("asHealingArray") /\ IsArray(fallback) /\ AllUsable(fallback) /\ IsArray(raw)) =>
       LET t == asMaybeTuple(cleaner, fallback, raw) IN
         /\ Len(out.vals) >= Len(t.vals)
         /\ SubSeq(out.vals, 1, Len(t.vals)) = t.vals
         /\ Len(raw.vals) <= Len(fallback.vals) => out = t
  /\ (Done("asHealingTuple") /\ AllUsable(fallback) /\ IsArray(raw)) =>
       LET a == asMaybeArray(cleaner, fallback, raw) IN
         /\ Len(a.vals) >= Len(out.vals)
         /\ SubSeq(a.vals, 1, Len(out.vals)) = out.vals
         /\ Len(raw.vals) <= Len(fallback.vals) => a = out

C18_Witness ==
  /\ Done("asHealingArray")
  /\ IsArray(fallback)
  /\ AllUsable(fallback)
  /\ Len(fallback.vals) = 2
  /\ IsArray(raw)
  /\ Len(raw.vals) = 3
  /\ ~Accepts(cleaner, raw.vals[1])
  /\ Accepts(cleaner, raw.vals[2])
  /\ Accepts(cleaner, raw.vals[3])
  /\ Len(out.vals) = 3
  /\ SubSeq(out.vals, 1, 2) = asMaybeTuple(cleaner, fallback, raw).vals

\* C19: the one-argument asHealingArray (iterating the elements of raw) and
\* the fallback-aware asHealingArray called without fallback (iterating the
\* indices of raw) return the same list for every cleaner and every raw.
C19_ArrayVersionsAgree ==
  /\ Done("asHealingArrayCleaner") => out = asMaybeArray(cleaner, Undefined, raw)
  /\ (Done("asHealingArray") /\ IsNullish(fallback)) => out = asHealingArrayCleaner(cleaner, raw)

C19_Witness ==
  /\ Done("asHealingArrayCleaner")
  /\ IsArray(raw)
  /\ Len(raw.vals) = 3
  /\ ~Accepts(cleaner, raw.vals[1])
  /\ Accepts(cleaner, raw.vals[2])
  /\ ~Accepts(cleaner, raw.vals[3])
  /\ out = MkArray(<<Apply(cleaner, raw.vals[2])>>)
  /\ out = asMaybeArray(cleaner, Undefined, raw)

===========================================================================
